---------------------------- MODULE Spec2Model ----------------------------
(***************************************************************************)
(* A model of the automatic-clahe crate (src/src/lib.rs and                *)
(* src/src/color_format.rs).                                               *)
(*                                                                         *)
(* The module holds four state machines over one set of variables:         *)
(*   SpecColor    the RGB -> HSV -> RGB conversion of color_format.rs      *)
(*   SpecRegions  the BlockRegions iterator                                *)
(*   SpecPdf      Pdf::new followed by Pdf::redistribute                   *)
(*   Spec         one call of AutomaticClahe::enhance_rgba_image           *)
(* Each of them leaves the variables of the others at their idle value.    *)
(***************************************************************************)
EXTENDS Integers, Sequences, FiniteSets, Bags, TLC

VARIABLES
    conv,            \* SpecColor: [pc, rgb, hsv, out]
    iter,            \* SpecRegions: the BlockRegions struct, what it yielded, whether it returned None
    hist,            \* SpecPdf: [pc, samples, clip, pdf, out, exceeded, offset]
    pixels,          \* Spec: the caller's byte buffer (&mut [u8])
    pixels0,         \* Spec: the buffer as it was when the call started (history)
    width,           \* Spec: the width argument
    options,         \* Spec: AutomaticClaheOptions (block_width, block_height)
    overflow_checks, \* Spec: whether the build panics on integer overflow (debug) or wraps (release)
    pc,              \* Spec: position in enhance_rgba_image
    image,           \* Spec: the Image struct built by Image::new
    regions,         \* Spec: the BlockRegions iterator of the call (its start point)
    blocks,          \* Spec: the Vec of blocks collected so far
    pos,             \* Spec: the pixel (y, x) the interpolation loop is at
    outcome          \* Spec: "running", "ok" or the panic the call ended in

vars == <<conv, iter, hist, pixels, pixels0, width, options, overflow_checks,
          pc, image, regions, blocks, pos, outcome>>

pipelineVars == <<pixels, pixels0, width, options, overflow_checks,
                  pc, image, regions, blocks, pos, outcome>>

Min(a, b) == IF a <= b THEN a ELSE b

Max(a, b) == IF a >= b THEN a ELSE b

Abs(a) == IF a >= 0 THEN a ELSE -a

(***************************************************************************)
(* color_format.rs.  All intermediate values are usize; the operands are   *)
(* at most 255 * 255 * 255, so nothing overflows, and every subtraction    *)
(* below has a non-negative result.  `as u8` truncates modulo 256.         *)
(***************************************************************************)
U8Max == 255

as_u8(n) == n % 256

rgb_to_hsv(r, g, b) ==
    LET max == Max(r, Max(g, b))
        min == Min(r, Min(g, b))
        n   == max - min
        s   == IF max = 0 THEN 0 ELSE (n * 255) \div max
        v   == max
        h   == (IF n = 0 THEN 0
                ELSE IF max = r THEN
                    IF g < b THEN (6 * 255) + ((g * 255) \div n) - ((b * 255) \div n)
                    ELSE ((g - b) * 255) \div n
                ELSE IF max = g THEN 2 * 255 + ((b * 255) \div n) - ((r * 255) \div n)
                ELSE 4 * 255 + ((r * 255) \div n) - ((g * 255) \div n)) \div 6
    IN  <<as_u8(h), as_u8(s), as_u8(v)>>

\* hsv_to_rgb with the falling and the rising ramp of sextant 1 exchanged.
hsv_to_rgb_swapped_ramp(h, s, v) ==
    IF s = 0 THEN <<v, v, v>>
    ELSE
    LET h6 == h * 6
        f  == h6 % 255
        k  == h6 \div 255
        full == 255 * 255
        low  == (v * (255 - s)) \div 255
        down == (v * (full - s * f)) \div full
        up   == (v * (full - s * (255 - f))) \div full
    IN  CASE k = 1 -> <<as_u8(up), as_u8(v), as_u8(low)>>
          [] k = 2 -> <<as_u8(low), as_u8(v), as_u8(up)>>
          [] k = 3 -> <<as_u8(low), as_u8(down), as_u8(v)>>
          [] k = 4 -> <<as_u8(up), as_u8(low), as_u8(v)>>
          [] k = 5 -> <<as_u8(v), as_u8(low), as_u8(down)>>
          [] OTHER -> <<as_u8(v), as_u8(up), as_u8(low)>>

hsv_to_rgb(h, s, v) ==
    IF s = 0 THEN <<v, v, v>>
    ELSE
    LET h6 == h * 6
        f  == h6 % 255
        k  == h6 \div 255
        full == 255 * 255
        low  == (v * (255 - s)) \div 255
        down == (v * (full - s * f)) \div full
        up   == (v * (full - s * (255 - f))) \div full
    IN  CASE k = 1 -> <<as_u8(down), as_u8(v), as_u8(low)>>
          [] k = 2 -> <<as_u8(low), as_u8(v), as_u8(up)>>
          [] k = 3 -> <<as_u8(low), as_u8(down), as_u8(v)>>
          [] k = 4 -> <<as_u8(up), as_u8(low), as_u8(v)>>
          [] k = 5 -> <<as_u8(v), as_u8(low), as_u8(down)>>
          [] OTHER -> <<as_u8(v), as_u8(up), as_u8(low)>>


(***************************************************************************)
(* Option<T>: None is the empty tuple, Some(x) the one-element tuple.      *)
(***************************************************************************)
None == <<>>

Some(x) == <<x>>

Point(x, y) == [x |-> x, y |-> y]

(***************************************************************************)
(* BlockRegions (lib.rs).  The struct is a record; next returns the item   *)
(* and the struct as the call leaves it.                                   *)
(***************************************************************************)
BlockRegions_new(image_width, image_height, block_width, block_height) ==
    [start        |-> Point(0, 0),
     image_width  |-> image_width,
     image_height |-> image_height,
     block_width  |-> block_width,
     block_height |-> block_height]

\* next clipping a block only where it crosses the image border, so that the
\* remainder of a row or column becomes a block of its own.
BlockRegions_next_clip_at_border(self) ==
    IF self.start.y = self.image_height THEN [item |-> None, self |-> self]
    ELSE
    LET start == self.start
        endx0 == start.x + self.block_width
        endy0 == start.y + self.block_height
        endx  == IF self.image_width < endx0 THEN self.image_width ELSE endx0
        endy  == IF self.image_height < endy0 THEN self.image_height ELSE endy0
        next_start == IF endx = self.image_width THEN Point(0, endy)
                      ELSE Point(endx, start.y)
    IN  [item |-> Some([start |-> start, end |-> Point(endx, endy)]),
         self |-> [self EXCEPT !.start = next_start]]

\* next starting the following row one block_height further down instead of at
\* the end of the row just yielded.
BlockRegions_next_fixed_row_step(self) ==
    IF self.start.y = self.image_height THEN [item |-> None, self |-> self]
    ELSE
    LET start == self.start
        endx0 == start.x + self.block_width
        endy0 == start.y + self.block_height
        endx  == IF self.image_width < endx0 + self.block_width
                 THEN self.image_width ELSE endx0
        endy  == IF self.image_height < endy0 + self.block_height
                 THEN self.image_height ELSE endy0
        next_start == IF endx = self.image_width
                      THEN Point(0, Min(endy0, self.image_height))
                      ELSE Point(endx, start.y)
    IN  [item |-> Some([start |-> start, end |-> Point(endx, endy)]),
         self |-> [self EXCEPT !.start = next_start]]

BlockRegions_next(self) ==
    IF self.start.y = self.image_height THEN [item |-> None, self |-> self]
    ELSE
    LET start == self.start
        endx0 == start.x + self.block_width
        endy0 == start.y + self.block_height
        endx  == IF self.image_width < endx0 + self.block_width
                 THEN self.image_width ELSE endx0
        endy  == IF self.image_height < endy0 + self.block_height
                 THEN self.image_height ELSE endy0
        next_start == IF endx = self.image_width THEN Point(0, endy)
                      ELSE Point(endx, start.y)
    IN  [item |-> Some([start |-> start, end |-> Point(endx, endy)]),
         self |-> [self EXCEPT !.start = next_start]]

Region_len(region) ==
    (region.end.y - region.start.y) * (region.end.x - region.start.x)

(***************************************************************************)
(* Region::items.  The positions in all_items, counted from 0, that the    *)
(* iterator reads, in the order it reads them: for each row y of the       *)
(* region, all_items[offset..][start.x..end.x] with offset = y * width,    *)
(* where width is the width of the region.                                 *)
(***************************************************************************)
Region_item_positions(region) ==
    LET rw == region.end.x - region.start.x
        rh == region.end.y - region.start.y
    IN  [k \in 1..(rw * rh) |->
            LET y == region.start.y + ((k - 1) \div rw)
                x == region.start.x + ((k - 1) % rw)
                offset == y * rw
            IN  offset + x]

\* A slice all_items[offset..][start.x..end.x] that does not lie in all_items
\* panics.
Region_items_in_bounds(region, len) ==
    \A y \in region.start.y..(region.end.y - 1) :
        (y * (region.end.x - region.start.x)) + region.end.x <= len

Region_items(region, all_items) ==
    LET at == Region_item_positions(region)
    IN  [k \in 1..Len(at) |-> all_items[at[k] + 1]]


(***************************************************************************)
(* Bounds of the model.                                                    *)
(***************************************************************************)
\* SpecColor: the channel values tried are the multiples of ChannelStep and 255.
ChannelStep == 5

\* SpecRegions: image widths and heights 1..MaxImageDim, block sizes 1..MaxBlockDim.
MaxImageDim == 7

MaxBlockDim == 3

ColorSamples == {v \in 0..U8Max : v % ChannelStep = 0} \cup {U8Max}

(***************************************************************************)
(* Idle values: what a state machine's variables hold while another runs.  *)
(***************************************************************************)
ConvIdle == [pc |-> "idle", rgb |-> <<0, 0, 0>>, hsv |-> <<0, 0, 0>>, out |-> <<0, 0, 0>>]

IterIdle == [it |-> BlockRegions_new(0, 0, 0, 0), yielded |-> <<>>, finished |-> TRUE]

HistIdle == [pc |-> "idle", samples |-> <<>>, clip |-> 0, pdf |-> <<>>, out |-> <<>>,
             exceeded |-> 0, offset |-> 0]

PipelineIdle ==
    /\ pixels = <<>>
    /\ pixels0 = <<>>
    /\ width = 0
    /\ options = [block_width |-> 0, block_height |-> 0]
    /\ overflow_checks = FALSE
    /\ pc = "idle"
    /\ image = [luminances |-> <<>>, height |-> 0, l_max |-> 0,
                 enhancement_weight_factor |-> [num |-> 0, den |-> 0]]
    /\ regions = BlockRegions_new(0, 0, 0, 0)
    /\ blocks = <<>>
    /\ pos = Point(0, 0)
    /\ outcome = "idle"

(***************************************************************************)
(* SpecColor: rgb_to_hsv, then hsv_to_rgb on its result, as the test       *)
(* rgb_to_hsv_works and the write-back of enhance_rgba_image chain them.   *)
(***************************************************************************)
ColorInit ==
    /\ conv \in [pc : {"rgb"}, rgb : ColorSamples \X ColorSamples \X ColorSamples,
                 hsv : {<<0, 0, 0>>}, out : {<<0, 0, 0>>}]
    /\ iter = IterIdle
    /\ hist = HistIdle
    /\ PipelineIdle

ToHsv ==
    /\ conv.pc = "rgb"
    /\ conv' = [conv EXCEPT !.pc = "hsv",
                            !.hsv = rgb_to_hsv(conv.rgb[1], conv.rgb[2], conv.rgb[3])]
    /\ UNCHANGED <<iter, hist, pipelineVars>>

ToRgb ==
    /\ conv.pc = "hsv"
    /\ conv' = [conv EXCEPT !.pc = "done",
                            !.out = hsv_to_rgb(conv.hsv[1], conv.hsv[2], conv.hsv[3])]
    /\ UNCHANGED <<iter, hist, pipelineVars>>

ColorNext == ToHsv \/ ToRgb

SpecColor == ColorInit /\ [][ColorNext]_vars

(***************************************************************************)
(* SpecRegions: a BlockRegions iterator pulled until it returns None.      *)
(***************************************************************************)
RegionsInit ==
    /\ \E w \in 1..MaxImageDim, h \in 1..MaxImageDim,
          bw \in 1..MaxBlockDim, bh \in 1..MaxBlockDim :
            iter = [it |-> BlockRegions_new(w, h, bw, bh), yielded |-> <<>>,
                    finished |-> FALSE]
    /\ conv = ConvIdle
    /\ hist = HistIdle
    /\ PipelineIdle

PullRegion ==
    /\ ~iter.finished
    /\ LET r == BlockRegions_next(iter.it)
       IN  iter' = IF r.item = None
                   THEN [iter EXCEPT !.it = r.self, !.finished = TRUE]
                   ELSE [iter EXCEPT !.it = r.self,
                                     !.yielded = Append(@, r.item[1])]
    /\ UNCHANGED <<conv, hist, pipelineVars>>

RegionsNext == PullRegion

SpecRegions == RegionsInit /\ [][RegionsNext]_vars


(***************************************************************************)
(* Pdf (lib.rs).  A Pdf is [f32; 256]; here a function on 0..255 whose     *)
(* values are f32 numbers written as integer multiples of 2^-FracBits.     *)
(* SpecPdf draws sample counts that are powers of two and clip points that *)
(* are multiples of 2^-ClipBits: on these every f32 operation of Pdf::new  *)
(* and Pdf::redistribute (c / n, x - clip_point, the sums, exceeded /      *)
(* 256.0) has a result that is a multiple of 2^-FracBits below 2^24 units  *)
(* and so is computed by f32 without rounding.                             *)
(***************************************************************************)
\* SpecPdf: sample counts 2^0 .. 2^MaxLogSamples.
MaxLogSamples == 2

\* SpecPdf: clip points are k / 2^ClipBits for k in -1 .. 2^ClipBits + 1.
ClipBits == 2

NumBins == 256

FracBits == 8 + MaxLogSamples + ClipBits

One == 2 ^ FracBits

Levels == 0..(NumBins - 1)

RECURSIVE SumRange(_, _, _)
\* pdf[lo] + ... + pdf[hi].  The loops over a [f32; 256] add the bins up from
\* bin 0 on; no addition rounds here, so the sum is taken by halves, which
\* keeps the evaluation shallow.
SumRange(pdf, lo, hi) ==
    IF lo > hi THEN 0
    ELSE IF lo = hi THEN pdf[lo]
    ELSE LET mid == (lo + hi) \div 2
         IN  SumRange(pdf, lo, mid) + SumRange(pdf, mid + 1, hi)

Total(pdf) == SumRange(pdf, 0, NumBins - 1)

RECURSIVE Count(_, _)
\* How many of the samples equal level: histogram[level] once the loop is over.
Count(samples, level) ==
    IF samples = <<>> THEN 0
    ELSE (IF Head(samples) = level THEN 1 ELSE 0) + Count(Tail(samples), level)

\* Pdf::new of a non-empty sample sequence.
Pdf_new(samples) ==
    [i \in Levels |-> (Count(samples, i) * One) \div Len(samples)]

\* redistribute spreading the excess over 255 bins instead of 256.
Pdf_redistribute_off_by_one(pdf, clip_point) ==
    LET exceeded == Total([i \in Levels |->
                              IF pdf[i] > clip_point THEN pdf[i] - clip_point ELSE 0])
        capped   == [i \in Levels |-> IF pdf[i] > clip_point THEN clip_point ELSE pdf[i]]
        offset   == exceeded \div (NumBins - 1)
    IN  [pdf      |-> IF exceeded > 0 THEN [i \in Levels |-> capped[i] + offset] ELSE capped,
         exceeded |-> exceeded,
         offset   |-> IF exceeded > 0 THEN offset ELSE 0]

\* Pdf::redistribute: the bins after the call, with the locals exceeded and
\* offset (0 when the second loop is skipped).
Pdf_redistribute(pdf, clip_point) ==
    LET exceeded == Total([i \in Levels |->
                              IF pdf[i] > clip_point THEN pdf[i] - clip_point ELSE 0])
        capped   == [i \in Levels |-> IF pdf[i] > clip_point THEN clip_point ELSE pdf[i]]
        offset   == exceeded \div NumBins
    IN  [pdf      |-> IF exceeded > 0 THEN [i \in Levels |-> capped[i] + offset] ELSE capped,
         exceeded |-> exceeded,
         offset   |-> IF exceeded > 0 THEN offset ELSE 0]

(***************************************************************************)
(* SpecPdf: Pdf::new(samples).redistribute(clip_point), as Block::new      *)
(* chains them.                                                            *)
(***************************************************************************)
SampleLevels == {0, 7, 255}

IsSorted(seq) == \A k \in 1..(Len(seq) - 1) : seq[k] <= seq[k + 1]

\* The sample sequences tried: 2^k samples of SampleLevels, k <= MaxLogSamples,
\* in non-decreasing order (the histogram does not depend on the order).
SampleSeqs ==
    UNION {{q \in [1..(2 ^ k) -> SampleLevels] : IsSorted(q)} : k \in 0..MaxLogSamples}

ClipPoints == {(c * One) \div (2 ^ ClipBits) : c \in (-1)..((2 ^ ClipBits) + 1)}

PdfInit ==
    /\ \E q \in SampleSeqs, c \in ClipPoints :
          hist = [HistIdle EXCEPT !.pc = "samples", !.samples = q, !.clip = c]
    /\ conv = ConvIdle
    /\ iter = IterIdle
    /\ PipelineIdle

BuildPdf ==
    /\ hist.pc = "samples"
    /\ hist' = [hist EXCEPT !.pc = "pdf", !.pdf = Pdf_new(hist.samples)]
    /\ UNCHANGED <<conv, iter, pipelineVars>>

Redistribute ==
    /\ hist.pc = "pdf"
    /\ LET r == Pdf_redistribute(hist.pdf, hist.clip)
       IN  hist' = [hist EXCEPT !.pc = "done", !.out = r.pdf,
                                !.exceeded = r.exceeded, !.offset = r.offset]
    /\ UNCHANGED <<conv, iter, pipelineVars>>

PdfNext == BuildPdf \/ Redistribute

SpecPdf == PdfInit /\ [][PdfNext]_vars

(***************************************************************************)
(* Claims about Pdf::redistribute (SpecPdf).                               *)
(***************************************************************************)
\* C9: redistribution conserves the total mass: the sum of the 256 bins after
\* Pdf::redistribute equals the sum before, the excess removed by capping the
\* bins at clipPoint equals 256 times the uniform offset added to each bin,
\* and every bin is its capped value plus that offset (capped and
\* redistributed once, not clipped again).
C9_MassConserved ==
    hist.pc = "done" =>
        LET capped  == [i \in Levels |-> Min(hist.pdf[i], hist.clip)]
            removed == Total(hist.pdf) - Total(capped)
        IN  /\ Total(hist.out) = Total(hist.pdf)
            /\ \A i \in Levels : NumBins * (hist.out[i] - capped[i]) = removed

\* C9 witness: a redistribution that capped one bin, left another bin with
\* mass below the clip point, and raised an empty bin above zero.
C9_Witness ==
    /\ hist.pc = "done"
    /\ hist.exceeded > 0
    /\ \E i, j, k \in SampleLevels \cup {1} :
          /\ hist.pdf[i] > hist.clip
          /\ hist.pdf[j] > 0 /\ hist.pdf[j] < hist.clip
          /\ hist.pdf[k] = 0 /\ hist.out[k] > 0
    /\ \E i \in SampleLevels : hist.out[i] > hist.clip

(***************************************************************************)
(* Claims about the BlockRegions iterator (SpecRegions).                   *)
(***************************************************************************)
Contains(region, x, y) ==
    /\ region.start.x <= x /\ x < region.end.x
    /\ region.start.y <= y /\ y < region.end.y

InsideImage(region) ==
    /\ 0 <= region.start.x /\ region.start.x < region.end.x
    /\ region.end.x <= iter.it.image_width
    /\ 0 <= region.start.y /\ region.start.y < region.end.y
    /\ region.end.y <= iter.it.image_height

CeilDiv(a, b) == (a + b - 1) \div b

\* What the iterator yields in all: whole blocks only, the remainder of a row
\* or column joined to the last block, and one block when the image is smaller
\* than a block.
MergedBlockCount ==
    Max(1, iter.it.image_width \div iter.it.block_width)
        * Max(1, iter.it.image_height \div iter.it.block_height)

RowMajor ==
    \A k \in 1..(Len(iter.yielded) - 1) :
        LET r == iter.yielded[k]
            n == iter.yielded[k + 1]
        IN  \/ r.start.y < n.start.y
            \/ r.start.y = n.start.y /\ r.start.x < n.start.x

\* C1: for width, height, blockWidth, blockHeight > 0 the regions yielded lie
\* inside the image and never overlap, and once the iterator has returned None
\* every pixel of [0,width) x [0,height) lies in exactly one of them.
C1_RegionsTileImage ==
    /\ \A k \in 1..Len(iter.yielded) : InsideImage(iter.yielded[k])
    /\ \A j, k \in 1..Len(iter.yielded) :
          j < k => ~\E x \in 0..(iter.it.image_width - 1),
                       y \in 0..(iter.it.image_height - 1) :
                          Contains(iter.yielded[j], x, y) /\ Contains(iter.yielded[k], x, y)
    /\ (iter.finished /\ iter.it.image_width > 0) =>
          \A x \in 0..(iter.it.image_width - 1), y \in 0..(iter.it.image_height - 1) :
              Cardinality({k \in 1..Len(iter.yielded) : Contains(iter.yielded[k], x, y)}) = 1

\* C1 witness: an iterator that has returned None after tiling an image whose
\* width and height are not multiples of the block size with several rows and
\* columns of blocks.
C1_Witness ==
    /\ iter.finished /\ iter.it.image_width > 0
    /\ Len(iter.yielded) >= 4
    /\ iter.it.image_width % iter.it.block_width # 0
    /\ iter.it.image_height % iter.it.block_height # 0

\* C5 (as claimed): the iterator returns None after yielding exactly
\* ceil(width/blockWidth) x ceil(height/blockHeight) regions.
C5_CeilBlockCount ==
    (iter.finished /\ iter.it.image_width > 0) =>
        Len(iter.yielded) = CeilDiv(iter.it.image_width, iter.it.block_width)
                              * CeilDiv(iter.it.image_height, iter.it.block_height)

\* C5 (amended): the iterator never yields more than
\* max(1, floor(width/blockWidth)) x max(1, floor(height/blockHeight)) regions,
\* the call after that many returns None, and it returns None no earlier.
C5_MergedBlockCount ==
    iter.it.image_width > 0 =>
        /\ Len(iter.yielded) <= MergedBlockCount
        /\ iter.finished => Len(iter.yielded) = MergedBlockCount
        /\ (Len(iter.yielded) = MergedBlockCount)
              <=> (BlockRegions_next(iter.it).item = None)

\* C5 witness: the iterator has returned None on an image where the floor and
\* the ceiling counts differ in both directions.
C5_Witness ==
    /\ iter.finished /\ iter.it.image_width > 0
    /\ iter.it.image_width > iter.it.block_width
    /\ iter.it.image_width % iter.it.block_width # 0
    /\ iter.it.image_height > iter.it.block_height
    /\ iter.it.image_height % iter.it.block_height # 0
    /\ Len(iter.yielded) = MergedBlockCount

\* C6 (as claimed): every region yielded is at most blockWidth wide and at most
\* blockHeight high, and the regions come in row-major order.
C6_AtMostBlockSize ==
    /\ \A k \in 1..Len(iter.yielded) :
          LET r == iter.yielded[k]
          IN  /\ r.end.x - r.start.x <= iter.it.block_width
              /\ r.end.y - r.start.y <= iter.it.block_height
    /\ RowMajor

\* C6 (amended): every region yielded is less than 2*blockWidth wide and less
\* than 2*blockHeight high; a region that does not end at the right (bottom)
\* border is exactly blockWidth wide (blockHeight high); one that does is at
\* least blockWidth wide (blockHeight high), or as wide (high) as the image when
\* the image is smaller than one block; the regions come in row-major order.
C6_LessThanTwoBlocks ==
    /\ \A k \in 1..Len(iter.yielded) :
          LET r  == iter.yielded[k]
              rw == r.end.x - r.start.x
              rh == r.end.y - r.start.y
          IN  /\ rw < 2 * iter.it.block_width
              /\ rh < 2 * iter.it.block_height
              /\ IF r.end.x < iter.it.image_width THEN rw = iter.it.block_width
                 ELSE rw >= Min(iter.it.block_width, iter.it.image_width)
              /\ IF r.end.y < iter.it.image_height THEN rh = iter.it.block_height
                 ELSE rh >= Min(iter.it.block_height, iter.it.image_height)
    /\ RowMajor

\* C6 witness: a region of the last column, not in the first column or row,
\* that is wider than a block, yielded after a region of the row above.
C6_Witness ==
    \E k \in 1..Len(iter.yielded) :
        LET r == iter.yielded[k]
        IN  /\ r.end.x - r.start.x > iter.it.block_width
            /\ r.end.y - r.start.y > iter.it.block_height
            /\ r.start.x > 0
            /\ r.start.y > 0

(***************************************************************************)
(* Claims about the colour conversions (SpecColor).                        *)
(***************************************************************************)
RoundTripError ==
    Max(Abs(conv.out[1] - conv.rgb[1]),
        Max(Abs(conv.out[2] - conv.rgb[2]), Abs(conv.out[3] - conv.rgb[3])))

\* C3: for all 8-bit (r,g,b), hsv_to_rgb(rgb_to_hsv(r,g,b)) differs from
\* (r,g,b) by at most 2 in each of the three channels.
C3_RoundTripWithinTwo ==
    conv.pc = "done" => RoundTripError <= 2


(***************************************************************************)
(* enhance_rgba_image (lib.rs).                                            *)
(*                                                                         *)
(* The body of enhance_rgba_image names width, height and block_cdfs in    *)
(* its calls of get_block_a..d; they are read as the width argument,       *)
(* image.height and the Vec of blocks just collected.                      *)
(*                                                                         *)
(* Integer overflow: a build with overflow checks (debug) panics on it, a  *)
(* build without (release) wraps.  overflow_checks is fixed per run.  A    *)
(* wrapped usize is 2^64 - d; TLC's integers are 32 bits wide, so the      *)
(* modulus is written 2^30 here: a wrapped value is only ever compared     *)
(* with pixel coordinates, which are far below either.                     *)
(*                                                                         *)
(* Floating point: the enhanced luminance l is the result of f32 powf and  *)
(* ln over the block CDFs, which has no counterpart here.  What is kept    *)
(* of it: l is exactly 0.0 when none of the four neighbour blocks exists   *)
(* (every term is then unwrap_or(0.0)), and otherwise                      *)
(* l.max(0.0).min(255.0) as u8 is some byte, drawn from EnhancedSamples.   *)
(***************************************************************************)
\* Spec: buffers of up to MaxPixels whole pixels, widths 0..MaxPixels.
MaxPixels == 4

\* Spec: block_width and block_height 0..MaxBlockSize.
MaxBlockSize == 2

\* Spec: a BlockRegions iterator that never returns None (block_width or
\* block_height 0, in a build that wraps) is followed for MaxEmptyBlocks blocks.
MaxEmptyBlocks == 2

ChannelCount == 4

DefaultDThreshold == 50

UsizeModulus == 2 ^ 30

WrapSub(a, b) == IF a >= b THEN a - b ELSE UsizeModulus - (b - a)

\* Image::new up to the panic it may end in: "" when it returns.
Image_new_panic(buf, w) ==
    IF Len(buf) % ChannelCount \in {1, 2} THEN "index out of bounds"
    ELSE IF w = 0 THEN "attempt to divide by zero"
    ELSE ""

\* The luminances Image::new pushes: one per chunk of 4 bytes, the last chunk
\* being shorter when the length is no multiple of 4.
Luminances(buf) ==
    [k \in 1..((Len(buf) + ChannelCount - 1) \div ChannelCount) |->
        LET i == (k - 1) * ChannelCount
        IN  Max(buf[i + 1], Max(buf[i + 2], buf[i + 3]))]

\* cdf.0.iter().take_while(|x| x <= 0.75).count(): the CDF is non-decreasing,
\* so this is the first level whose CDF value exceeds 0.75.  cdf[l] is the
\* share of samples <= l; for the sample counts of this model the f32 value is
\* 0.75 exactly when the share is.  No samples: every entry is NaN, count 0.
LAlpha(luminances) ==
    LET n == Len(luminances)
        AtMost(l) == Cardinality({k \in 1..n : luminances[k] <= l})
        over == {l \in Levels : 4 * AtMost(l) > 3 * n}
    IN  IF n = 0 THEN 0
        ELSE CHOOSE l \in over : \A m \in over : l <= m

RECURSIVE MaxOf(_)
MaxOf(seq) == IF seq = <<>> THEN 0 ELSE Max(Head(seq), MaxOf(Tail(seq)))

RECURSIVE MinOf(_)
MinOf(seq) == IF seq = <<>> THEN U8Max ELSE Min(Head(seq), MinOf(Tail(seq)))

Image_new(buf, w) ==
    LET luminances == Luminances(buf)
        l_max == MaxOf(luminances)
    IN  [luminances |-> luminances,
         height     |-> Len(luminances) \div w,
         l_max      |-> l_max,
         enhancement_weight_factor |-> [num |-> l_max, den |-> LAlpha(luminances)]]

\* Block::new up to the panic it may end in.
Block_new_panic(img, region, checks) ==
    LET samples == Region_items(region, img.luminances)
    IN  IF ~Region_items_in_bounds(region, Len(img.luminances))
        THEN "range end index out of range"
        ELSE IF checks /\ MaxOf(samples) < MinOf(samples)
        THEN "attempt to subtract with overflow"
        ELSE ""

\* Block::new.  samples is what region.items yields, from which the statistics
\* and both CDFs of the block are computed.
Block_new(img, region) ==
    LET samples == Region_items(region, img.luminances)
        l_max == MaxOf(samples)
        l_min == MinOf(samples)
        range == (l_max - l_min) % (U8Max + 1)
    IN  [enable_dual_gamma_correction |-> range > DefaultDThreshold,
         l_max   |-> l_max,
         region  |-> region,
         samples |-> samples]

(***************************************************************************)
(* get_block_a .. get_block_d.  Each returns [panic, underflow, block]:    *)
(* the panic the call ends in ("" when it returns), whether h - 1 or w - 1 *)
(* underflowed, and the Option of the block's index in the Vec.            *)
(***************************************************************************)
\* The first four statements, the same in all four functions.
ClampToGrid(y, x, w, h, opts, checks) ==
    IF opts.block_height = 0 \/ opts.block_width = 0
    THEN [panic |-> "attempt to divide by zero", underflow |-> FALSE,
          y |-> y, x |-> x, w |-> w, h |-> h]
    ELSE
    LET h1 == (h \div opts.block_height) * opts.block_height
        w1 == (w \div opts.block_width) * opts.block_width
        underflow == h1 = 0 \/ w1 = 0
    IN  [panic |-> IF underflow /\ checks THEN "attempt to subtract with overflow" ELSE "",
         underflow |-> underflow,
         y |-> Min(y, WrapSub(h1, 1)),
         x |-> Min(x, WrapSub(w1, 1)),
         w |-> w1,
         h |-> h1]

\* &block_cdfs[block_y * block_w + block_x]
BlockAt(g, block_y, block_x, opts, nblocks) ==
    LET block_w == g.w \div opts.block_width
        index == block_y * block_w + block_x
    IN  IF index >= nblocks
        THEN [panic |-> "index out of bounds", underflow |-> g.underflow, block |-> None]
        ELSE [panic |-> "", underflow |-> g.underflow, block |-> Some(index)]

NoBlock(g) == [panic |-> g.panic, underflow |-> g.underflow, block |-> None]

get_block_a(y, x, w, h, opts, checks, nblocks) ==
    LET g == ClampToGrid(y, x, w, h, opts, checks)
    IN  IF g.panic # "" THEN NoBlock(g)
        ELSE IF g.y < opts.block_height \div 2 \/ g.x < opts.block_width \div 2
        THEN NoBlock(g)
        ELSE BlockAt(g, (g.y - opts.block_height \div 2) \div opts.block_height,
                        (g.x - opts.block_width \div 2) \div opts.block_width,
                     opts, nblocks)

get_block_b(y, x, w, h, opts, checks, nblocks) ==
    LET g == ClampToGrid(y, x, w, h, opts, checks)
    IN  IF g.panic # "" THEN NoBlock(g)
        ELSE IF g.y < opts.block_height \div 2 \/ g.w <= g.x + opts.block_width \div 2
        THEN NoBlock(g)
        ELSE BlockAt(g, (g.y - opts.block_height \div 2) \div opts.block_height,
                        (g.x + opts.block_width \div 2) \div opts.block_width,
                     opts, nblocks)

get_block_c(y, x, w, h, opts, checks, nblocks) ==
    LET g == ClampToGrid(y, x, w, h, opts, checks)
    IN  IF g.panic # "" THEN NoBlock(g)
        ELSE IF g.h <= g.y + opts.block_height \div 2 \/ g.x < opts.block_width \div 2
        THEN NoBlock(g)
        ELSE BlockAt(g, (g.y + opts.block_height \div 2) \div opts.block_height,
                        (g.x - opts.block_width \div 2) \div opts.block_width,
                     opts, nblocks)

get_block_d(y, x, w, h, opts, checks, nblocks) ==
    LET g == ClampToGrid(y, x, w, h, opts, checks)
    IN  IF g.panic # "" THEN NoBlock(g)
        ELSE IF g.h <= g.y + opts.block_height \div 2 \/ g.w <= g.x + opts.block_width \div 2
        THEN NoBlock(g)
        ELSE BlockAt(g, (g.y + opts.block_height \div 2) \div opts.block_height,
                        (g.x + opts.block_width \div 2) \div opts.block_width,
                     opts, nblocks)

\* The four lookups of one pixel, in the order the loop makes them.
Neighbours(y, x) ==
    <<get_block_a(y, x, width, image.height, options, overflow_checks, Len(blocks)),
      get_block_b(y, x, width, image.height, options, overflow_checks, Len(blocks)),
      get_block_c(y, x, width, image.height, options, overflow_checks, Len(blocks)),
      get_block_d(y, x, width, image.height, options, overflow_checks, Len(blocks))>>

\* BlockCdf::center_y and center_x.
center_y(block) ==
    (block.region.end.y - block.region.start.y) \div 2 + block.region.start.y

center_x(block) ==
    (block.region.end.x - block.region.start.x) \div 2 + block.region.start.x

(***************************************************************************)
(* The weights m and n of one pixel.  Each is kept as the two operands of  *)
(* the f32 division, [num, den], the usize subtractions computed as the    *)
(* build computes them, and underflow tells whether one of them went below *)
(* zero.  den = 0 is the f32 division by zero: NaN for 0.0 / 0.0, infinity *)
(* otherwise.  The constants 1.0 and 0.0 are 1 / 1 and 0 / 1.              *)
(***************************************************************************)
Weight_m(y, nb) ==
    LET a == nb[1].block
        b == nb[2].block
        c == nb[3].block
    IN  IF a # None /\ c # None
        THEN LET ay == center_y(blocks[a[1] + 1])
                 cy == center_y(blocks[c[1] + 1])
             IN  [num |-> WrapSub(cy, y), den |-> WrapSub(cy, ay),
                  underflow |-> cy < y \/ cy < ay]
        ELSE IF a # None \/ b # None
        THEN [num |-> 1, den |-> 1, underflow |-> FALSE]
        ELSE [num |-> 0, den |-> 1, underflow |-> FALSE]

Weight_n(x, nb) ==
    LET a == nb[1].block
        b == nb[2].block
        c == nb[3].block
    IN  IF a # None /\ b # None
        THEN LET ax == center_x(blocks[a[1] + 1])
                 bx == center_x(blocks[b[1] + 1])
             IN  [num |-> WrapSub(bx, x), den |-> WrapSub(bx, ax),
                  underflow |-> bx < x \/ bx < ax]
        ELSE IF a # None \/ c # None
        THEN [num |-> 1, den |-> 1, underflow |-> FALSE]
        ELSE [num |-> 0, den |-> 1, underflow |-> FALSE]

\* The factors of a.enhance, b.enhance, c.enhance and d.enhance in l, as
\* numerators over m.den * n.den: la = n * .., lb = (1 - n) * .., lc = n * ..,
\* ld = (1 - n) * .., each 0.0 for a missing block, and
\* l = m * (la + lb) + (1 - m) * (lc + ld).
BlendWeights(m, n, nb) ==
    <<IF nb[1].block # None THEN m.num * n.num ELSE 0,
      IF nb[2].block # None THEN m.num * (n.den - n.num) ELSE 0,
      IF nb[3].block # None THEN (m.den - m.num) * n.num ELSE 0,
      IF nb[4].block # None THEN (m.den - m.num) * (n.den - n.num) ELSE 0>>

\* The bytes l.max(0.0).min(255.0) as u8 may be for a pixel of luminance l0.
EnhancedSamples(l0, nb) ==
    IF \A k \in 1..4 : nb[k].block = None THEN {0} ELSE {0, l0, U8Max}

\* The write-back writing the three channels one byte too far.
WriteBack_shifted(buf, i, rgb) ==
    [k \in 1..Len(buf) |->
        IF k = i + 2 THEN rgb[1]
        ELSE IF k = i + 3 THEN rgb[2]
        ELSE IF k = i + 4 THEN rgb[3]
        ELSE buf[k]]

\* image.pixels[i] = r; image.pixels[i + 1] = g; image.pixels[i + 2] = b;
\* (i counts from 0, the sequence from 1).
WriteBack(buf, i, rgb) ==
    [k \in 1..Len(buf) |->
        IF k = i + 1 THEN rgb[1]
        ELSE IF k = i + 2 THEN rgb[2]
        ELSE IF k = i + 3 THEN rgb[3]
        ELSE buf[k]]


(***************************************************************************)
(* Spec: one call enhance_rgba_image(pixels, width).                       *)
(***************************************************************************)
\* The RGBA pixels the buffers are made of: black and a saturated colour.
PixelPalette == {<<0, 0, 0, 77>>, <<200, 10, 30, 99>>}

\* The bytes of a last, incomplete pixel.
TailBytes == <<9, 8, 7>>

Flatten(q) ==
    [k \in 1..(ChannelCount * Len(q)) |->
        q[((k - 1) \div ChannelCount) + 1][((k - 1) % ChannelCount) + 1]]

Buffers ==
    {Flatten(q) \o SubSeq(TailBytes, 1, t) :
        q \in UNION {[1..n -> PixelPalette] : n \in 0..MaxPixels},
        t \in 0..(ChannelCount - 1)}

Init ==
    /\ pixels \in Buffers
    /\ pixels0 = pixels
    /\ width \in 0..MaxPixels
    /\ options \in [block_width : 0..MaxBlockSize, block_height : 0..MaxBlockSize]
    /\ overflow_checks \in BOOLEAN
    /\ pc = "new"
    /\ image = [luminances |-> <<>>, height |-> 0, l_max |-> 0,
                enhancement_weight_factor |-> [num |-> 0, den |-> 0]]
    /\ regions = BlockRegions_new(0, 0, 0, 0)
    /\ blocks = <<>>
    /\ pos = Point(0, 0)
    /\ outcome = "running"
    /\ conv = ConvIdle
    /\ iter = IterIdle
    /\ hist = HistIdle

Panic(message) ==
    /\ pc' = "done"
    /\ outcome' = message

\* let image = Image::<4>::new(pixels, width); and BlockRegions::new.
NewImage ==
    /\ pc = "new"
    /\ \/ /\ Image_new_panic(pixels, width) # ""
          /\ Panic(Image_new_panic(pixels, width))
          /\ UNCHANGED <<image, regions>>
       \/ /\ Image_new_panic(pixels, width) = ""
          /\ image' = Image_new(pixels, width)
          /\ regions' = BlockRegions_new(width, image'.height,
                                         options.block_width, options.block_height)
          /\ pc' = "blocks"
          /\ UNCHANGED outcome
    /\ UNCHANGED <<pixels, pixels0, width, options, overflow_checks, blocks, pos>>
    /\ UNCHANGED <<conv, iter, hist>>

\* One turn of .map(|region| Block::new(..)).collect(): pull a region and
\* build its block, or leave for the interpolation loop when the iterator
\* returns None.
CollectBlock ==
    /\ pc = "blocks"
    /\ LET r == BlockRegions_next(regions)
       IN  \/ /\ r.item = None
              /\ IF image.height = 0
                 THEN pc' = "done" /\ outcome' = "ok"
                 ELSE pc' = "pixels" /\ UNCHANGED outcome
              /\ UNCHANGED <<regions, blocks>>
           \/ /\ r.item # None
              /\ Block_new_panic(image, r.item[1], overflow_checks) # ""
              /\ Panic(Block_new_panic(image, r.item[1], overflow_checks))
              /\ UNCHANGED <<regions, blocks>>
           \/ /\ r.item # None
              /\ Block_new_panic(image, r.item[1], overflow_checks) = ""
              /\ Region_len(r.item[1]) = 0 => Len(blocks) < MaxEmptyBlocks
              /\ regions' = r.self
              /\ blocks' = Append(blocks, Block_new(image, r.item[1]))
              /\ UNCHANGED <<pc, outcome>>
    /\ UNCHANGED <<pixels, pixels0, width, options, overflow_checks, image, pos>>
    /\ UNCHANGED <<conv, iter, hist>>

\* One turn of the interpolation loop, for the pixel at pos.
EnhancePixel ==
    /\ pc = "pixels"
    /\ LET y  == pos.y
           x  == pos.x
           nb == Neighbours(y, x)
           panicking == {k \in 1..4 : nb[k].panic # ""}
           weights_underflow ==
               Weight_m(y, nb).underflow \/ Weight_n(x, nb).underflow
           message ==
               IF panicking # {}
               THEN nb[CHOOSE k \in panicking : \A j \in panicking : k <= j].panic
               ELSE IF overflow_checks /\ weights_underflow
               THEN "attempt to subtract with overflow"
               ELSE ""
           l0 == image.luminances[y * width + x + 1]
           i  == (y * width + x) * 4
           last == x + 1 = width /\ y + 1 = image.height
       IN  \/ /\ message # ""
              /\ Panic(message)
              /\ UNCHANGED <<pixels, pos>>
           \/ /\ message = ""
              /\ \E l \in EnhancedSamples(l0, nb) :
                    LET hsv == rgb_to_hsv(pixels[i + 1], pixels[i + 2], pixels[i + 3])
                        rgb == hsv_to_rgb(hsv[1], hsv[2], l)
                    IN  pixels' = WriteBack(pixels, i, rgb)
              /\ pos' = IF x + 1 = width THEN Point(0, y + 1) ELSE Point(x + 1, y)
              /\ IF last THEN pc' = "done" /\ outcome' = "ok"
                 ELSE UNCHANGED <<pc, outcome>>
    /\ UNCHANGED <<pixels0, width, options, overflow_checks, image, regions, blocks>>
    /\ UNCHANGED <<conv, iter, hist>>

Next == NewImage \/ CollectBlock \/ EnhancePixel

Spec == Init /\ [][Next]_vars


(***************************************************************************)
(* Claims about enhance_rgba_image (Spec).                                 *)
(***************************************************************************)
\* The inputs the claim calls invalid.
InvalidInput ==
    \/ Len(pixels0) % ChannelCount # 0
    \/ width = 0
    \/ options.block_width = 0
    \/ options.block_height = 0

\* A whole number of rows of whole pixels, and a positive block size.
ValidInput ==
    /\ ~InvalidInput
    /\ Len(pixels0) > 0
    /\ Len(pixels0) % (ChannelCount * width) = 0

\* C2: a call with invalid input (buffer length not divisible by channelCount,
\* width = 0, blockWidth = 0 or blockHeight = 0) ends in a failure, and the
\* pixel buffer is unchanged by it.  The code has no InvalidInput value: any
\* panic is taken for the failure here, and only a normal return or a changed
\* buffer contradicts the claim.
C2_InvalidInputRejected ==
    (pc # "idle" /\ InvalidInput) =>
        /\ pixels = pixels0
        /\ pc = "done" => outcome # "ok"

\* C4: whatever enhance_rgba_image has done so far, the buffer has the length
\* it had when the call started and the 4th byte of every 4-byte pixel has its
\* original value.
C4_AlphaUnchanged ==
    /\ Len(pixels) = Len(pixels0)
    /\ \A k \in 1..Len(pixels) : k % ChannelCount = 0 => pixels[k] = pixels0[k]

\* C4 witness: a call that returned after rewriting the colour bytes of an
\* image of at least two whole pixels with different alpha values.
C4_Witness ==
    /\ pc = "done" /\ outcome = "ok"
    /\ Len(pixels) % ChannelCount = 0
    /\ Len(pixels) >= 2 * ChannelCount
    /\ pixels[4] # pixels[8]
    /\ \E k \in 1..Len(pixels) : pixels[k] # pixels0[k]
    /\ \A k \in 1..(Len(pixels) \div ChannelCount) :
          \E c \in 1..3 : pixels[ChannelCount * (k - 1) + c]
                            # pixels0[ChannelCount * (k - 1) + c]

\* C7: for every pixel of an image with width, height > 0 and any positive
\* block size (the buffer a whole number of rows), each of get_block_a/b/c/d
\* completes without integer underflow or division by zero and returns no
\* block or an index below the number of blocks.
C7_LookupsSafe ==
    (pc = "pixels" /\ ValidInput) =>
        \A y \in 0..(image.height - 1), x \in 0..(width - 1) :
            \A k \in 1..4 :
                LET got == Neighbours(y, x)[k]
                IN  /\ ~got.underflow
                    /\ got.panic = ""
                    /\ got.block = None \/ got.block[1] < Len(blocks)

BagOfSeq(seq) ==
    [v \in {seq[k] : k \in 1..Len(seq)} |-> Cardinality({k \in 1..Len(seq) : seq[k] = v})]

\* The luminances of the pixels (x, y) of a region, row by row.
RegionLuminances(region) ==
    LET rw == region.end.x - region.start.x
        rh == region.end.y - region.start.y
    IN  [k \in 1..(rw * rh) |->
            image.luminances[(region.start.y + ((k - 1) \div rw)) * width
                             + region.start.x + ((k - 1) % rw) + 1]]

\* C8: the samples Block::new takes for a region are exactly the luminances of
\* the pixels (x, y) with startX <= x < endX and startY <= y < endY, each once.
C8_BlockSamplesAreRegion ==
    (pc # "idle" /\ ValidInput) =>
    \A b \in 1..Len(blocks) :
        BagOfSeq(blocks[b].samples) = BagOfSeq(RegionLuminances(blocks[b].region))

\* C10: for every non-empty image the divisor lAlpha of
\* enhancementWeightFactor = globalMax / lAlpha is at least 1.
C10_LAlphaAtLeastOne ==
    (pc \in {"blocks", "pixels", "done"} /\ ValidInput) =>
        image.enhancement_weight_factor.den >= 1

\* The image is at least one block wide and one block high.
AtLeastOneBlock ==
    /\ width >= options.block_width
    /\ image.height >= options.block_height

\* C11: for every pixel of an image of whole rows, at least one block wide and
\* high, and any positive block size, the blend is a convex combination of the
\* neighbour blocks that exist: the subtractions of m and n do not underflow,
\* their divisors are not zero (centerY(C) # centerY(A) when A and C exist,
\* centerX(B) # centerX(A) when A and B exist), m and n lie in [0, 1], a
\* missing neighbour has weight 0 and the weights of the others sum to 1.
C11_ConvexBlend ==
    (pc = "pixels" /\ ValidInput /\ AtLeastOneBlock) =>
        \A y \in 0..(image.height - 1), x \in 0..(width - 1) :
            LET nb == Neighbours(y, x)
                m  == Weight_m(y, nb)
                n  == Weight_n(x, nb)
                wt == BlendWeights(m, n, nb)
            IN  /\ \A k \in 1..4 : nb[k].panic = ""
                /\ ~m.underflow /\ ~n.underflow
                /\ m.den # 0 /\ n.den # 0
                /\ m.num <= m.den /\ n.num <= n.den
                /\ \A k \in 1..4 : nb[k].block = None => wt[k] = 0
                /\ wt[1] + wt[2] + wt[3] + wt[4] = m.den * n.den

=============================================================================
